---- MODULE Spec2Model ----
(***************************************************************************)
(* Model of loom.client.LoomClient (src/src/loom/client.py) and of the     *)
(* concurrent driver in src/benchmark.py.                                  *)
(*                                                                         *)
(* Encoding of Python values:                                              *)
(*   - Optional[x]        : a sequence of length 0 (None) or 1 (<<x>>)     *)
(*   - prompts            : sequences of one-character strings, so that    *)
(*                          str.strip() is computed, not assumed           *)
(*   - temperature        : an integer number of tenths (7 is 0.7)         *)
(*   - text from the model: a sequence of JSON tokens, so that parsing and *)
(*                          schema validation are computed                 *)
(***************************************************************************)
EXTENDS Integers, Sequences, FiniteSets, TLC

(* ------------------------------ bounds --------------------------------- *)
NumThreads == 3
MaxTokensBound == 2

(* --------------------------- program constants ------------------------- *)
TempLow == 0
TempHigh == 20
DefaultTemperature == 7
DefaultMaxTokens == -1

Threads == 1 .. NumThreads
Caller == 1

None == << >>
Some(x) == << x >>
IsNone(o) == Len(o) = 0
\* Python truthiness of an Optional[str]: None and "" are falsy
TruthyStr(o) == Len(o) = 1 /\ o[1] # ""
\* the same for an Optional text (a token sequence): None and the empty text are falsy
TruthyText(o) == Len(o) = 1 /\ o[1] # << >>

(* ------------------------------ str.strip ------------------------------ *)
Whitespace == {" ", "\t", "\n"}

RECURSIVE LStrip(_)
LStrip(s) ==
  IF s = << >> THEN << >>
  ELSE IF Head(s) \in Whitespace THEN LStrip(Tail(s)) ELSE s

RECURSIVE RStrip(_)
RStrip(s) ==
  IF s = << >> THEN << >>
  ELSE IF s[Len(s)] \in Whitespace THEN RStrip(SubSeq(s, 1, Len(s) - 1)) ELSE s

Strip(s) == RStrip(LStrip(s))

IsEmptyOnly(s) == s = << >>
\* `not prompt.strip()`
IsBlank(s) == Strip(s) = << >>

TemperatureUpTo3(temperature) == TempLow <= temperature /\ temperature <= TempHigh + 10
\* `0.0 <= temperature <= 2.0`
TemperatureInRange(temperature) == TempLow <= temperature /\ temperature <= TempHigh

WireMaxTokensNonNegative(max_tokens) == IF max_tokens >= 0 THEN Some(max_tokens) ELSE None
\* `max_tokens if max_tokens > 0 else None`
WireMaxTokens(max_tokens) == IF max_tokens > 0 THEN Some(max_tokens) ELSE None

(* ------------------- JSON text and pydantic validation ----------------- *)
StringToks == {"cpu_name", "core_count", "abc"}
NumberToks == {"12"}
BoolToks == {"true", "false"}
ScalarToks == StringToks \cup NumberToks \cup BoolToks

EmptyObj == [k \in {} |-> ""]
ParseFail == [ok |-> FALSE, isObject |-> FALSE, obj |-> EmptyObj]

RECURSIVE ParseMembers(_, _)
ParseMembers(toks, acc) ==
  IF Len(toks) >= 4 /\ toks[1] \in StringToks /\ toks[2] = ":" /\ toks[3] \in ScalarToks
  THEN LET acc2 == [k \in (DOMAIN acc) \cup {toks[1]} |->
                      IF k = toks[1] THEN toks[3] ELSE acc[k]]
       IN  IF toks[4] = "}"
           THEN IF Len(toks) = 4
                THEN [ok |-> TRUE, isObject |-> TRUE, obj |-> acc2]
                ELSE ParseFail
           ELSE IF toks[4] = ","
                THEN ParseMembers(SubSeq(toks, 5, Len(toks)), acc2)
                ELSE ParseFail
  ELSE ParseFail

\* the JSON reader inside model_validate_json: a scalar, or a flat object
ParseJSON(toks) ==
  IF Len(toks) = 1 /\ toks[1] \in ScalarToks
  THEN [ok |-> TRUE, isObject |-> FALSE, obj |-> EmptyObj]
  ELSE IF Len(toks) = 2 /\ toks[1] = "{" /\ toks[2] = "}"
  THEN [ok |-> TRUE, isObject |-> TRUE, obj |-> EmptyObj]
  ELSE IF Len(toks) >= 1 /\ toks[1] = "{"
  THEN ParseMembers(Tail(toks), EmptyObj)
  ELSE ParseFail

\* pydantic's field check for the value tokens used here
FieldTypeOK(type, tok) ==
  CASE type = "str"  -> tok \in StringToks
    [] type = "int"  -> tok \in NumberToks
    [] type = "bool" -> tok \in BoolToks

\* a caller's response_model: field types and the set of required fields
HardwareSpecs ==
  [name |-> "HardwareSpecs",
   fields |-> [cpu_name |-> "str", core_count |-> "int"],
   required |-> {"cpu_name", "core_count"}]
Note ==
  [name |-> "Note",
   fields |-> [cpu_name |-> "str"],
   required |-> {}]
ResponseModels == {HardwareSpecs, Note}

SchemaOK(response_model, obj) ==
  /\ \A r \in response_model.required : r \in DOMAIN obj
  /\ \A k \in (DOMAIN obj) \cap (DOMAIN response_model.fields) :
        FieldTypeOK(response_model.fields[k], obj[k])

Instance(response_model, obj) ==
  [type |-> response_model.name,
   values |-> [k \in DOMAIN response_model.fields |->
                 IF k \in DOMAIN obj THEN Some(obj[k]) ELSE None]]

AcceptAnyJson(response_model, content) ==
  LET p == ParseJSON(content)
  IN  IF p.ok
      THEN [ok |-> TRUE, value |-> Instance(response_model, p.obj)]
      ELSE [ok |-> FALSE, value |-> None]
\* response_model.model_validate_json(content): an instance, or a
\* ValidationError
ModelValidateJson(response_model, content) ==
  LET p == ParseJSON(content)
  IN  IF p.ok /\ p.isObject /\ SchemaOK(response_model, p.obj)
      THEN [ok |-> TRUE, value |-> Instance(response_model, p.obj)]
      ELSE [ok |-> FALSE, value |-> None]

(* ------------------------------- inputs -------------------------------- *)
Prompts == { << >>, <<" ", "\t">>, <<"H", "i">>, <<" ", "S", "y", "s", "\n">> }
Temperatures == {-10, -1, TempLow, DefaultTemperature, TempHigh, TempHigh + 1}
MaxTokensValues == DefaultMaxTokens .. MaxTokensBound

\* benchmark.py: client.generate("System", prompt) with the defaults
BenchSystemPrompt == <<"S", "y", "s", "t", "e", "m">>
BenchPrompt == <<"E", "x", "p", "l", "a", "i", "n">>

ModelNames == {"gpt-oss-120b", "test-model"}
Hosts == {"http://192.168.1.42:8000/v1"}

(* --------------------- what the transport may answer ------------------- *)
Usages ==
  { [prompt_tokens |-> 10, completion_tokens |-> 5, total_tokens |-> 15],
    [prompt_tokens |-> 7,  completion_tokens |-> 2, total_tokens |-> 9] }
ExtraMaps == { EmptyObj, [reasoning_content |-> ""], [reasoning_content |-> "T-extra"] }

ConnectionFailure == [kind |-> "APIConnectionError"]
StatusFailures == { [kind |-> "APIStatusError", status_code |-> c] : c \in {404, 500} }

\* a chat completion, flattened: choices[0].message.*, choices[0].finish_reason,
\* usage, model.  The transport's message type always carries model_extra as a
\* map (its models allow extra fields), so every completion has one.
Completions ==
  [kind : {"ok"},
   content : {None, Some("42")},
   reasoning_content : {None, Some(""), Some("T-field")},
   model_extra : { Some(m) : m \in ExtraMaps },
   finish_reason : {None, Some("stop"), Some("length")},
   usage : {None} \cup { Some(u) : u \in Usages },
   model : {None, Some("gpt-oss-120b")}]

GenerateReplies == {ConnectionFailure} \cup StatusFailures \cup Completions

\* the replies the concurrent driver is run against
BenchCompletion(content, reasoning, usage) ==
  [kind |-> "ok", content |-> Some(content), reasoning_content |-> reasoning,
   model_extra |-> Some(EmptyObj), finish_reason |-> Some("stop"),
   usage |-> Some(usage), model |-> Some("gpt-oss-120b")]
BenchReplies ==
  {ConnectionFailure, [kind |-> "APIStatusError", status_code |-> 500]} \cup
  { BenchCompletion(c, r, u) :
      c \in {"42", "Latency"}, r \in {None, Some("T-field")}, u \in Usages }

\* the text of a structured reply, as JSON tokens
Texts ==
  { << >>,
    <<"{", "}">>,
    <<"{", "cpu_name", ":", "abc", "}">>,
    <<"{", "cpu_name", ":", "abc", ",", "core_count", ":", "12", "}">>,
    <<"{", "cpu_name", ":", "12", ",", "core_count", ":", "12", "}">>,
    <<"{", "cpu_name", ":", "abc">>,
    <<"abc">>,
    <<"Sure", "{", "}">> }

StructuredCompletions ==
  [kind : {"ok"},
   content : {None} \cup { Some(x) : x \in Texts },
   reasoning_content : {None},
   model_extra : {Some(EmptyObj)},
   finish_reason : {Some("stop")},
   usage : {Some(u) : u \in Usages},
   model : {Some("gpt-oss-120b")}]

StructuredReplies == {ConnectionFailure} \cup StatusFailures \cup StructuredCompletions

(* -------------------------------- state -------------------------------- *)
VARIABLES
  self,       \* the LoomClient: model_name and the connection handle's base_url
  pc,         \* per thread: "idle", "waiting" (inside create()), "done"
  call,       \* per thread: the operation called and its arguments
  wire,       \* per thread: the requests its call handed to the transport
  response,   \* per thread: what create() returned or raised (Optional)
  outcome,    \* per thread: what the call returned or raised (Optional)
  stdout      \* the lines printed, in order, each tagged with its thread

vars == <<self, pc, call, wire, response, outcome, stdout>>

NoCall == [op |-> "none"]

Init ==
  /\ self \in [model_name : ModelNames, base_url : Hosts]
  /\ pc = [t \in Threads |-> "idle"]
  /\ call = [t \in Threads |-> NoCall]
  /\ wire = [t \in Threads |-> << >>]
  /\ response = [t \in Threads |-> None]
  /\ outcome = [t \in Threads |-> None]
  /\ stdout = << >>

(* ------------------------------ generate ------------------------------- *)
GenerateArgs(system_prompt, user_prompt, temperature, max_tokens, enable_reasoning) ==
  [op |-> "generate", system_prompt |-> system_prompt, user_prompt |-> user_prompt,
   temperature |-> temperature, max_tokens |-> max_tokens,
   enable_reasoning |-> enable_reasoning]

\* the pre-condition block: the ValueError raised, or None
GeneratePrecondition(a) ==
  IF IsBlank(a.system_prompt)
  THEN Some([kind |-> "raise", error |-> "ValueError", field |-> "system_prompt"])
  ELSE IF IsBlank(a.user_prompt)
  THEN Some([kind |-> "raise", error |-> "ValueError", field |-> "user_prompt"])
  ELSE IF ~TemperatureInRange(a.temperature)
  THEN Some([kind |-> "raise", error |-> "ValueError", field |-> "temperature",
             value |-> a.temperature])
  ELSE None

\* the keyword arguments of chat.completions.create
GenerateRequest(client, a) ==
  [model |-> client.model_name,
   messages |-> << [role |-> "system", content |-> a.system_prompt],
                   [role |-> "user", content |-> a.user_prompt] >>,
   temperature |-> a.temperature,
   max_tokens |-> WireMaxTokens(a.max_tokens),
   extra_body |-> Some([enable_reasoning |-> a.enable_reasoning]),
   response_format |-> None]

TransmitWithRetry(sent, req) == Append(Append(sent, req), req)
\* one invocation of self.client.chat.completions.create(...)
Transmit(sent, req) == Append(sent, req)

GenerateCall(t, system_prompt, user_prompt, temperature, max_tokens, enable_reasoning) ==
  LET a == GenerateArgs(system_prompt, user_prompt, temperature, max_tokens,
                        enable_reasoning)
      failed == GeneratePrecondition(a)
  IN  /\ pc[t] = "idle"
      /\ call' = [call EXCEPT ![t] = a]
      /\ IF failed # None
         THEN /\ outcome' = [outcome EXCEPT ![t] = failed]
              /\ pc' = [pc EXCEPT ![t] = "done"]
              /\ UNCHANGED wire
         ELSE /\ wire' = [wire EXCEPT ![t] = Transmit(wire[t], GenerateRequest(self, a))]
              /\ pc' = [pc EXCEPT ![t] = "waiting"]
              /\ UNCHANGED outcome
      /\ UNCHANGED <<self, response, stdout>>

DictGet(d, k) == IF k \in DOMAIN d THEN Some(d[k]) ELSE None

ExtractReasoningFieldOnly(m) == m.reasoning_content
\* getattr(message, "reasoning_content", None), then message.model_extra
ExtractReasoning(m) ==
  LET reasoning_content == m.reasoning_content
  IN  IF ~TruthyStr(reasoning_content) /\ m.model_extra # None
      THEN DictGet(m.model_extra[1], "reasoning_content")
      ELSE reasoning_content

FinishReasonDefault == "unknown"

\* LoomResponse(**kw): pydantic fills a field's default only when the keyword
\* is not passed; a passed None is validated against the declared type.
\* kw.reasoning, kw.model_used and kw.finish_reason are Optional-encoded.
LoomResponse(kw) ==
  LET reasoning == IF "reasoning" \in DOMAIN kw THEN kw.reasoning ELSE None
      finish_reason == IF "finish_reason" \in DOMAIN kw
                       THEN kw.finish_reason ELSE Some(FinishReasonDefault)
  IN  IF kw.model_used # None /\ finish_reason # None
      THEN [ok |-> TRUE,
            value |-> [content |-> kw.content, reasoning |-> reasoning,
                       token_usage |-> kw.token_usage,
                       model_used |-> kw.model_used[1],
                       finish_reason |-> finish_reason[1]]]
      ELSE [ok |-> FALSE, value |-> None]

\* the body of the try block after create() has returned r
ProcessResponse(r) ==
  IF r.usage = None
  THEN [kind |-> "raise", error |-> "AttributeError"]
  ELSE LET built == LoomResponse(
                      [content |-> IF TruthyStr(r.content) THEN r.content[1] ELSE "",
                       reasoning |-> ExtractReasoning(r),
                       token_usage |->
                         [prompt_tokens |-> r.usage[1].prompt_tokens,
                          completion_tokens |-> r.usage[1].completion_tokens,
                          total_tokens |-> r.usage[1].total_tokens],
                       model_used |-> r.model,
                       finish_reason |-> r.finish_reason])
       IN  IF built.ok
           THEN [kind |-> "return", value |-> built.value]
           ELSE [kind |-> "raise", error |-> "ValidationError"]

\* what generate hands to its caller once create() has returned or raised r
GenerateOutcome(r) ==
  CASE r.kind = "APIConnectionError" -> [kind |-> "raise", error |-> "APIConnectionError"]
    [] r.kind = "APIStatusError" ->
         [kind |-> "raise", error |-> "APIStatusError", status_code |-> r.status_code]
    [] r.kind = "ok" -> ProcessResponse(r)

GenerateLogConnectionOnly(client, t, r) ==
  IF r.kind = "APIConnectionError"
  THEN << [thread |-> t, line |-> "Loom Connection Error: Could not reach",
           detail |-> client.base_url] >>
  ELSE << >>
\* the print statements of generate's except clauses
GenerateLog(client, t, r) ==
  CASE r.kind = "APIConnectionError" ->
         << [thread |-> t, line |-> "Loom Connection Error: Could not reach",
             detail |-> client.base_url] >>
    [] r.kind = "APIStatusError" ->
         << [thread |-> t, line |-> "Loom Status Error: Server returned",
             detail |-> r.status_code] >>
    [] r.kind = "ok" -> << >>

OtherResponse(resps, t) ==
  IF \E u \in Threads \ {t} : resps[u] # None
  THEN resps[CHOOSE u \in Threads \ {t} : resps[u] # None][1]
  ELSE resps[t][1]
\* `response` is a local of the call running in thread t
LocalResponse(resps, t) == resps[t][1]

GenerateReturn(t, r) ==
  /\ pc[t] = "waiting"
  /\ call[t].op = "generate"
  /\ response' = [response EXCEPT ![t] = Some(r)]
  /\ outcome' = [outcome EXCEPT ![t] = Some(GenerateOutcome(LocalResponse(response', t)))]
  /\ stdout' = stdout \o GenerateLog(self, t, LocalResponse(response', t))
  /\ pc' = [pc EXCEPT ![t] = "done"]
  /\ UNCHANGED <<self, call, wire>>

(* -------------------------- generate_structured ------------------------ *)
StructuredArgs(system_prompt, user_prompt, response_model, temperature) ==
  [op |-> "generate_structured", system_prompt |-> system_prompt,
   user_prompt |-> user_prompt, response_model |-> response_model,
   temperature |-> temperature]

\* the system prompt followed by the schema instructions
GuidedSystemPrompt(system_prompt, response_model) ==
  system_prompt \o
  << "\n", "\n", "You must respond with valid JSON strictly following this schema:",
     response_model.name, "Do not add any markdown formatting or chatter." >>

StructuredRequest(client, a) ==
  [model |-> client.model_name,
   messages |-> << [role |-> "system",
                    content |-> GuidedSystemPrompt(a.system_prompt, a.response_model)],
                   [role |-> "user", content |-> a.user_prompt] >>,
   temperature |-> a.temperature,
   max_tokens |-> None,
   extra_body |-> None,
   response_format |-> Some("json_object")]

\* generate_structured has no pre-condition block: it builds the prompt and
\* calls create()
StructuredCall(t, system_prompt, user_prompt, response_model, temperature) ==
  LET a == StructuredArgs(system_prompt, user_prompt, response_model, temperature)
  IN  /\ pc[t] = "idle"
      /\ call' = [call EXCEPT ![t] = a]
      /\ wire' = [wire EXCEPT ![t] = Transmit(wire[t], StructuredRequest(self, a))]
      /\ pc' = [pc EXCEPT ![t] = "waiting"]
      /\ UNCHANGED <<self, response, outcome, stdout>>

\* `response.choices[0].message.content or "{}"`
StructuredContent(r) == IF TruthyText(r.content) THEN r.content[1] ELSE <<"{", "}">>

StructuredOutcome(a, r) ==
  CASE r.kind = "APIConnectionError" -> [kind |-> "raise", error |-> "APIConnectionError"]
    [] r.kind = "APIStatusError" ->
         [kind |-> "raise", error |-> "APIStatusError", status_code |-> r.status_code]
    [] r.kind = "ok" ->
         LET v == ModelValidateJson(a.response_model, StructuredContent(r))
         IN  IF v.ok
             THEN [kind |-> "return", value |-> v.value]
             ELSE [kind |-> "raise", error |-> "ValidationError"]

\* the print statements of generate_structured's except clauses
StructuredLog(a, t, r) ==
  CASE r.kind = "APIConnectionError" -> << >>
    [] r.kind = "APIStatusError" ->
         << [thread |-> t, line |-> "Loom Status Error:", detail |-> r.status_code] >>
    [] r.kind = "ok" ->
         IF ModelValidateJson(a.response_model, StructuredContent(r)).ok
         THEN << >>
         ELSE << [thread |-> t,
                  line |-> "Loom Validation Error: Model output did not match schema.",
                  detail |-> StructuredContent(r)] >>

StructuredReturn(t, r) ==
  /\ pc[t] = "waiting"
  /\ call[t].op = "generate_structured"
  /\ response' = [response EXCEPT ![t] = Some(r)]
  /\ outcome' = [outcome EXCEPT ![t] =
                   Some(StructuredOutcome(call[t], LocalResponse(response', t)))]
  /\ stdout' = stdout \o StructuredLog(call[t], t, LocalResponse(response', t))
  /\ pc' = [pc EXCEPT ![t] = "done"]
  /\ UNCHANGED <<self, call, wire>>

(* ---------------------------- specifications --------------------------- *)
\* one caller, one call, any arguments
Next ==
  \/ \E sp \in Prompts, up \in Prompts, temp \in Temperatures,
        mt \in MaxTokensValues, er \in BOOLEAN :
       GenerateCall(Caller, sp, up, temp, mt, er)
  \/ \E r \in GenerateReplies : GenerateReturn(Caller, r)
  \/ \E sp \in Prompts, up \in Prompts, m \in ResponseModels, temp \in Temperatures :
       StructuredCall(Caller, sp, up, m, temp)
  \/ \E r \in StructuredReplies : StructuredReturn(Caller, r)

Spec == Init /\ [][Next]_vars

\* benchmark.py: every thread of the pool runs client.generate("System", prompt)
BenchGenerate(t) ==
  GenerateCall(t, BenchSystemPrompt, BenchPrompt, DefaultTemperature,
               DefaultMaxTokens, TRUE)

ConcNext ==
  \/ \E t \in Threads : BenchGenerate(t)
  \/ \E t \in Threads, r \in BenchReplies : GenerateReturn(t, r)

ConcSpec == Init /\ [][ConcNext]_vars

(* ------------------------------- claims -------------------------------- *)
AllWhitespace(s) == \A i \in 1 .. Len(s) : s[i] \in Whitespace
IsGenerate(t) == call[t].op = "generate"
IsStructured(t) == call[t].op = "generate_structured"
Done(t) == pc[t] = "done" /\ outcome[t] # None
Raised(t, error) == Done(t) /\ outcome[t][1].kind = "raise" /\ outcome[t][1].error = error
Returned(t) == Done(t) /\ outcome[t][1].kind = "return"
Requests(t) == Len(wire[t])
Printed(t) == SelectSeq(stdout, LAMBDA l : l.thread = t)

\* C1: a generate call whose system_prompt or user_prompt is empty or
\* whitespace-only fails with ValueError naming a blank prompt field, and it
\* has issued no request, whatever temperature, max_tokens and
\* enable_reasoning are.
C1_BlankPromptRejected ==
  \A t \in Threads :
    (IsGenerate(t) /\ (AllWhitespace(call[t].system_prompt)
                        \/ AllWhitespace(call[t].user_prompt)))
    => /\ Raised(t, "ValueError")
       /\ Requests(t) = 0
       /\ outcome[t][1].field \in {"system_prompt", "user_prompt"}
       /\ outcome[t][1].field = "system_prompt" => AllWhitespace(call[t].system_prompt)
       /\ outcome[t][1].field = "user_prompt" => AllWhitespace(call[t].user_prompt)

C1_Witness ==
  \E t \in Threads :
    /\ IsGenerate(t) /\ Raised(t, "ValueError")
    /\ call[t].system_prompt = <<"H", "i">>
    /\ call[t].user_prompt = <<" ", "\t">>
    /\ call[t].temperature = TempHigh + 1
    /\ outcome[t][1].field = "user_prompt"

\* C2: with non-blank prompts, generate rejects a temperature below 0.0 or
\* above 2.0 with a ValueError echoing the value and issues no request; a
\* temperature inside [0.0, 2.0], 0.0 and 2.0 included, is not rejected and
\* one request reaches the transport.
C2_TemperatureClosedInterval ==
  \A t \in Threads :
    (IsGenerate(t) /\ ~AllWhitespace(call[t].system_prompt)
                   /\ ~AllWhitespace(call[t].user_prompt))
    => IF call[t].temperature < 0 \/ call[t].temperature > 20
       THEN /\ Raised(t, "ValueError")
            /\ outcome[t][1].field = "temperature"
            /\ outcome[t][1].value = call[t].temperature
            /\ Requests(t) = 0
       ELSE /\ ~Raised(t, "ValueError")
            /\ Requests(t) = 1

C2_Witness ==
  /\ \E t \in Threads :
       IsGenerate(t) /\ call[t].temperature = 20 /\ Requests(t) = 1 /\ Done(t)

\* C3: a generate_structured call whose system_prompt or user_prompt is empty
\* or whitespace-only fails with ValueError and issues no request.
C3_StructuredBlankPromptRejected ==
  \A t \in Threads :
    (IsStructured(t) /\ (AllWhitespace(call[t].system_prompt)
                          \/ AllWhitespace(call[t].user_prompt)))
    => /\ Raised(t, "ValueError")
       /\ Requests(t) = 0

\* the pre-conditions the two operations document
PassesPreconditions(t) ==
  /\ call[t].op \in {"generate", "generate_structured"}
  /\ ~AllWhitespace(call[t].system_prompt)
  /\ ~AllWhitespace(call[t].user_prompt)
  /\ IsGenerate(t) => (0 <= call[t].temperature /\ call[t].temperature <= 20)

\* C4: a call of generate or generate_structured that passes its
\* pre-conditions has issued exactly one request, while it waits and after it
\* has returned or raised; when create() raised APIConnectionError, generate
\* raises APIConnectionError with exactly one request issued.
C4_ExactlyOneRequest ==
  \A t \in Threads :
    PassesPreconditions(t)
    => /\ Requests(t) = 1
       /\ (IsGenerate(t) /\ response[t] = Some(ConnectionFailure))
            => (Raised(t, "APIConnectionError") /\ Requests(t) = 1)

C4_Witness ==
  \E t \in Threads :
    /\ IsGenerate(t) /\ PassesPreconditions(t)
    /\ response[t] = Some(ConnectionFailure)
    /\ Raised(t, "APIConnectionError")

WellFormedBut(r) == r.kind = "ok" /\ r.usage # None /\ r.model # None

\* C5: when an otherwise well-formed response omits the finish reason,
\* generate returns a result whose finish_reason is "unknown"; otherwise the
\* result's finish_reason is the one the server reported.
C5_FinishReasonDefault ==
  \A t \in Threads :
    (IsGenerate(t) /\ Done(t) /\ response[t] # None /\ WellFormedBut(response[t][1]))
    => /\ Returned(t)
       /\ outcome[t][1].value.finish_reason =
            IF response[t][1].finish_reason = None
            THEN "unknown"
            ELSE response[t][1].finish_reason[1]

FailureKinds == {"APIConnectionError", "APIStatusError", "ValidationError"}

\* the failure that occurred inside generate's try block
Occurred(r) ==
  CASE r.kind = "APIConnectionError" -> "APIConnectionError"
    [] r.kind = "APIStatusError" -> "APIStatusError"
    [] r.kind = "ok" /\ r.usage # None /\ (r.model = None \/ r.finish_reason = None)
         -> "ValidationError"
    [] OTHER -> "none"

Offending(response_model, text) ==
  LET p == ParseJSON(text)
  IN  ~p.ok \/ ~p.isObject \/ ~SchemaOK(response_model, p.obj)

\* the error is the validator's, re-raised as it is; the text travels in the
\* line printed by the except clause
OffendingTextRejected(t, text) ==
  /\ Raised(t, "ValidationError")
  /\ Len(Printed(t)) = 1 /\ Printed(t)[1].detail = text
  /\ Requests(t) = 1

WellFormed(r) == WellFormedBut(r) /\ r.finish_reason # None

\* the reasoning the server supplied: the dedicated field when it is
\* non-empty, the extension map's entry otherwise, None when there is none
SuppliedReasoning(r) ==
  IF r.reasoning_content # None /\ r.reasoning_content[1] # ""
  THEN r.reasoning_content
  ELSE IF r.model_extra # None /\ "reasoning_content" \in DOMAIN r.model_extra[1]
  THEN Some(r.model_extra[1].reasoning_content)
  ELSE None

\* C8: for every well-formed response generate returns a result, whose
\* reasoning is the dedicated field's text when that is non-empty, the
\* extension map's text otherwise, and None when neither holds reasoning.
C8_ReasoningCaptured ==
  \A t \in Threads :
    (IsGenerate(t) /\ Done(t) /\ response[t] # None /\ WellFormed(response[t][1]))
    => /\ Returned(t)
       /\ outcome[t][1].value.reasoning = SuppliedReasoning(response[t][1])

C8_Witness ==
  \E t \in Threads :
    /\ IsGenerate(t) /\ Returned(t)
    /\ response[t][1].reasoning_content = None
    /\ response[t][1].model_extra = Some([reasoning_content |-> "T-extra"])
    /\ outcome[t][1].value.reasoning = Some("T-extra")

\* each finished call holds the result of its own response
OwnResult(t) ==
  LET r == response[t][1]
  IN  IF r.kind = "ok"
      THEN /\ Returned(t)
           /\ outcome[t][1].value.content = r.content[1]
           /\ outcome[t][1].value.reasoning = r.reasoning_content
           /\ outcome[t][1].value.token_usage = r.usage[1]
      ELSE Raised(t, r.kind)

\* C9: under every interleaving of the driver's concurrent generate calls on
\* one client, each finished call holds the result built from the response to
\* its own request, and no step changes the client's model_name or base_url.
C9_CallsIsolated ==
  /\ [](\A t \in Threads : Done(t) => OwnResult(t))
  /\ [][self' = self]_vars

C9_Witness ==
  \E t, u \in Threads :
    /\ t # u /\ Returned(t) /\ Returned(u)
    /\ response[t][1].content # response[u][1].content
    /\ response[t][1].usage # response[u][1].usage
    /\ response[t][1].reasoning_content # response[u][1].reasoning_content

\* C10: the max_tokens of the request generate issues is None when the
\* max_tokens argument is <= 0 (0 and the default -1 included) and is the
\* argument itself when it is > 0.
C10_MaxTokensOnWire ==
  \A t \in Threads :
    (IsGenerate(t) /\ Requests(t) >= 1)
    => wire[t][1].max_tokens =
         IF call[t].max_tokens <= 0 THEN None ELSE Some(call[t].max_tokens)

C10_Witness ==
  \E t \in Threads :
    /\ IsGenerate(t) /\ Requests(t) = 1
    /\ call[t].max_tokens = 0 /\ wire[t][1].max_tokens = None

====
